---- MODULE Spec2Model ----
(***************************************************************************)
(* Model of the quiz data converter backend:                               *)
(*   - the record normalizer at the head of create_stable_html (main.py),  *)
(*   - DataIntegrityValidator and validate_and_report (data_validator.py), *)
(*   - the script of the generated practice page (main.py, stable_api.py): *)
(*     shuffleArray, randomizeQuestions, selectAnswer, navigation, restart.*)
(*                                                                         *)
(* Text is a sequence of one-character strings, so that strip(), "in",     *)
(* indexOf() and the has_code regular expression are computed, not         *)
(* assumed.  A JSON value is a record [t, s, n, l]: t is its type tag,     *)
(* s its text (t = "str"), n its number (t = "int"), l its elements        *)
(* (t = "list") or its entries in insertion order (t = "dict").            *)
(***************************************************************************)
EXTENDS Integers, Sequences, FiniteSets, TLC

\* ------------------------------------------------------------------ bounds

\* Longest list of records handed to create_stable_html / the validator.
MaxQuestions == 2
\* Randomization on its own: the longest list of records and the most
\* options its records hold together.
MaxLoadQuestions == 2
MaxLoadOptions == 5
\* The page with all its handlers: the same two limits.
MaxPageQuestions == 2
MaxPageOptions == 3

\* ------------------------------------------------------------ JSON values

Elem(k, t, s, n) == [k |-> k, t |-> t, s |-> s, n |-> n]
Val(t, s, n, l) == [t |-> t, s |-> s, n |-> n, l |-> l]

\* A key that the dictionary does not hold.
Absent == Val("absent", <<>>, 0, <<>>)
\* JSON null, Python None.
None == Val("none", <<>>, 0, <<>>)
Str(s) == Val("str", s, 0, <<>>)
Num(n) == Val("int", <<>>, n, <<>>)
List(l) == Val("list", <<>>, 0, l)
Dict(l) == Val("dict", <<>>, 0, l)

\* List elements and dictionary entries (scalars; a list element has key <<>>).
ENone == Elem(<<>>, "none", <<>>, 0)
EStr(s) == Elem(<<>>, "str", s, 0)
EInt(n) == Elem(<<>>, "int", <<>>, n)
Entry(k, e) == Elem(k, e.t, e.s, e.n)
ElemVal(e) == Val(e.t, e.s, e.n, <<>>)

\* ------------------------------------------------------------------- text

\* Characters in ascending code point order (the order Python's sorted() uses).
CharTable ==
    << "\t", "\n", " ", "#", "'", "(", ")", "-", "0", "1", "2", "3", "4", "5",
       "6", "7", "8", "9", "A", "B", "C", "D", "E", "F", "G", "H", "I", "J",
       "K", "L", "M", "N", "O", "P", "Q", "R", "S", "T", "U", "V", "W", "X",
       "Y", "Z", "a", "b", "c", "d", "e", "f", "h", "i", "l", "m", "n", "o",
       "p", "r", "s", "t", "u", "v", "w", "x" >>

CodeOf(c) == CHOOSE i \in 1..Len(CharTable) : CharTable[i] = c

IsSpace(c) == c \in {" ", "\n", "\t"}

RECURSIVE LStrip(_)
LStrip(s) == IF s # <<>> /\ IsSpace(Head(s)) THEN LStrip(Tail(s)) ELSE s

RECURSIVE RStrip(_)
RStrip(s) ==
    IF s # <<>> /\ IsSpace(s[Len(s)]) THEN RStrip(SubSeq(s, 1, Len(s) - 1)) ELSE s

\* str.strip() / String.prototype.trim().
Strip(s) == RStrip(LStrip(s))

\* Whether text t occurs in s starting at position i (1-based).
OccursAt(s, t, i) ==
    /\ i + Len(t) - 1 <= Len(s)
    /\ \A k \in 1..Len(t) : s[i + k - 1] = t[k]

\* Python's "t in s" for strings.
Contains(s, t) == \E i \in 1..(Len(s) + 1) : OccursAt(s, t, i)

\* String.prototype.indexOf: the zero-based position of the first occurrence
\* of t in s, -1 when there is none; the empty text occurs at 0.
IndexOf(s, t) ==
    IF Contains(s, t)
    THEN (CHOOSE i \in 1..(Len(s) + 1) :
            /\ OccursAt(s, t, i)
            /\ \A j \in 1..(i - 1) : ~OccursAt(s, t, j)) - 1
    ELSE -1

\* Lexicographic order of texts by code point.
RECURSIVE TextLess(_, _)
TextLess(a, b) ==
    IF b = <<>> THEN FALSE
    ELSE IF a = <<>> THEN TRUE
    ELSE IF Head(a) = Head(b) THEN TextLess(Tail(a), Tail(b))
    ELSE CodeOf(Head(a)) < CodeOf(Head(b))

Digits == << "0", "1", "2", "3", "4", "5", "6", "7", "8", "9" >>

RECURSIVE NatToText(_)
NatToText(n) ==
    IF n < 10 THEN << Digits[n + 1] >>
    ELSE NatToText(n \div 10) \o << Digits[(n % 10) + 1] >>

\* str(n) for an integer.
IntToText(n) == IF n < 0 THEN << "-" >> \o NatToText(-n) ELSE NatToText(n)

IsDigit(c) == \E i \in 1..10 : Digits[i] = c
DigitValue(c) == (CHOOSE i \in 1..10 : Digits[i] = c) - 1

RECURSIVE DigitsToNat(_, _)
DigitsToNat(s, acc) ==
    IF s = <<>> THEN acc ELSE DigitsToNat(Tail(s), acc * 10 + DigitValue(Head(s)))

\* repr(s) of a text: single quotes, double quotes when the text holds a
\* single quote and no double quote; backslash, line break and the
\* enclosing quote are escaped.
ReprChar(c, quote) ==
    IF c = "\n" THEN << "\\", "n" >>
    ELSE IF c = "\\" \/ c = quote THEN << "\\", c >>
    ELSE << c >>

RECURSIVE ReprChars(_, _)
ReprChars(s, quote) ==
    IF s = <<>> THEN <<>>
    ELSE ReprChar(Head(s), quote) \o ReprChars(Tail(s), quote)

ReprText(s) ==
    LET quote == IF Contains(s, << "'" >>) /\ ~Contains(s, << "\"" >>)
                 THEN "\"" ELSE "'"
    IN  << quote >> \o ReprChars(s, quote) \o << quote >>

\* repr of a list element or a dictionary value.
ReprElem(e) ==
    CASE e.t = "str" -> ReprText(e.s)
      [] e.t = "int" -> IntToText(e.n)
      [] OTHER -> << "N", "o", "n", "e" >>

\* The entries of a list or a dictionary, separated by ", ".
RECURSIVE ReprEntries(_, _)
ReprEntries(l, keyed) ==
    IF l = <<>> THEN <<>>
    ELSE (IF keyed THEN ReprText(Head(l).k) \o << ":", " " >> ELSE <<>>)
            \o ReprElem(Head(l))
            \o (IF Tail(l) = <<>> THEN <<>> ELSE << ",", " " >>)
            \o ReprEntries(Tail(l), keyed)

\* str(v): text as is, a number in decimal, None as "None", a list as
\* [repr, ...] and a dictionary as {repr: repr, ...}.
PyStr(v) ==
    CASE v.t = "str" -> v.s
      [] v.t = "int" -> IntToText(v.n)
      [] v.t = "none" -> << "N", "o", "n", "e" >>
      [] v.t = "list" -> << "[" >> \o ReprEntries(v.l, FALSE) \o << "]" >>
      [] v.t = "dict" -> << "{" >> \o ReprEntries(v.l, TRUE) \o << "}" >>
      [] OTHER -> << "repr", v.t >>

\* Python truthiness: None, "", 0, [] and {} are false.
Truthy(v) ==
    CASE v.t = "str" -> v.s # <<>>
      [] v.t = "int" -> v.n # 0
      [] v.t \in {"list", "dict"} -> v.l # <<>>
      [] OTHER -> FALSE

\* ----------------------------------------------------- has_code detection

\* The alternatives of the has_code regular expression; "s+" and "s*" stand
\* for \s+ and \s*, every other token is a literal character.
CodePatterns ==
    { << "#", "i", "n", "c", "l", "u", "d", "e" >>,
      << "i", "n", "t", "s+", "m", "a", "i", "n" >>,
      << "p", "r", "i", "n", "t", "f" >>,
      << "s", "c", "a", "n", "f" >>,
      << "f", "o", "r", "s*", "(" >>,
      << "w", "h", "i", "l", "e", "s*", "(" >>,
      << "i", "f", "s*", "(" >>,
      << "v", "o", "i", "d", "s+" >>,
      << "c", "h", "a", "r", "s+" >>,
      << "f", "l", "o", "a", "t", "s+" >>,
      << "d", "o", "u", "b", "l", "e", "s+" >> }

RECURSIVE MatchAt(_, _, _)
MatchAt(pat, s, i) ==
    IF pat = <<>> THEN TRUE
    ELSE IF Head(pat) = "s*"
         THEN \/ MatchAt(Tail(pat), s, i)
              \/ (i <= Len(s) /\ IsSpace(s[i]) /\ MatchAt(pat, s, i + 1))
    ELSE IF Head(pat) = "s+"
         THEN i <= Len(s) /\ IsSpace(s[i])
                /\ MatchAt(<< "s*" >> \o Tail(pat), s, i + 1)
    ELSE i <= Len(s) /\ s[i] = Head(pat) /\ MatchAt(Tail(pat), s, i + 1)

\* bool(re.search(<pattern>, text)) for a text: some alternative matches at
\* some position (no alternative matches the empty text).
HasCode(text) ==
    \E i \in 1..Len(text) :
        \E pat \in CodePatterns : Head(pat) = text[i] /\ MatchAt(pat, text, i)

\* -------------------------------------------------------------- raw records

\* One element of the list handed to create_stable_html or to the validator.
\* isMap is FALSE for an element that is no dictionary (a string, a number,
\* null); a key the dictionary lacks holds Absent.
RawRecord(rq, qn, ti, ro, op, ra, an, ci) ==
    [ isMap |-> TRUE, raw_question |-> rq, question |-> qn, title |-> ti,
      raw_options |-> ro, options |-> op, raw_answer |-> ra, answer |-> an,
      correctOptionIndex |-> ci ]

NotAMapping ==
    [ RawRecord(Absent, Absent, Absent, Absent, Absent, Absent, Absent, Absent)
        EXCEPT !.isMap = FALSE ]

\* "key in q"
Has(v) == v.t # "absent"
\* q.get(key): None for a missing key.
Get(v) == IF Has(v) THEN v ELSE None
\* q.get(key, default)
GetDefault(v, default) == IF Has(v) THEN v ELSE default
\* Python's "a or b".
Or(a, b) == IF Truthy(a) THEN a ELSE b

\* ---------------------------------------------------------- the normalizer

letters ==
    << "A", "B", "C", "D", "E", "F", "G", "H", "I", "J", "K", "L", "M", "N",
       "O", "P", "Q", "R", "S", "T", "U", "V", "W", "X", "Y", "Z" >>

\* The entries of a dictionary in ascending order of key (insertion sort).
RECURSIVE InsertByKey(_, _)
InsertByKey(e, sorted) ==
    IF sorted = <<>> THEN << e >>
    ELSE IF TextLess(e.k, Head(sorted).k) THEN << e >> \o sorted
    ELSE << Head(sorted) >> \o InsertByKey(e, Tail(sorted))

RECURSIVE SortedByKey(_)
SortedByKey(entries) ==
    IF entries = <<>> THEN <<>>
    ELSE InsertByKey(Head(entries), SortedByKey(Tail(entries)))

\* int(v) inside the try block: [ok, n]; ok is FALSE where int() raises.
ToInt(v) ==
    CASE v.t = "int" -> [ok |-> TRUE, n |-> v.n]
      [] v.t = "str" ->
            LET body == Strip(v.s)
                neg == body # <<>> /\ Head(body) = "-"
                digs == IF neg THEN Tail(body) ELSE body
            IN  IF digs # <<>> /\ \A i \in 1..Len(digs) : IsDigit(digs[i])
                THEN [ok |-> TRUE,
                      n |-> IF neg THEN 0 - DigitsToNat(digs, 0)
                                   ELSE DigitsToNat(digs, 0)]
                ELSE [ok |-> FALSE, n |-> 0]
      [] OTHER -> [ok |-> FALSE, n |-> 0]

\* rq = q.get("raw_question") or q.get("question") or q.get("title") or ""
ResolveQuestion(q) ==
    Or(Or(Or(Get(q.raw_question), Get(q.question)), Get(q.title)), Str(<<>>))

\* A mutation of ResolveOptions: null entries are dropped.
ResolveOptionsDropNull(q) ==
    LET ro == Or(Or(Get(q.raw_options), Get(q.options)), List(<<>>))
        flat == IF ro.t = "dict" THEN SortedByKey(ro.l)
                ELSE IF ro.t = "list" THEN ro.l
                ELSE <<>>
        kept == SelectSeq(flat, LAMBDA e : e.t # "none")
    IN  [i \in 1..Len(kept) |-> PyStr(ElemVal(kept[i]))]

\* A mutation of ResolveOptions: a dictionary's values in insertion order.
ResolveOptionsUnsorted(q) ==
    LET ro == Or(Or(Get(q.raw_options), Get(q.options)), List(<<>>))
        flat == IF ro.t \in {"dict", "list"} THEN ro.l ELSE <<>>
    IN  [i \in 1..Len(flat) |->
            IF flat[i].t = "none" THEN <<>> ELSE PyStr(ElemVal(flat[i]))]

\* ro = q.get("raw_options") or q.get("options") or [], a dictionary
\* flattened by sorted key, anything but a list replaced by [], every
\* entry turned into text.
ResolveOptions(q) ==
    LET ro == Or(Or(Get(q.raw_options), Get(q.options)), List(<<>>))
        flat == IF ro.t = "dict" THEN SortedByKey(ro.l)
                ELSE IF ro.t = "list" THEN ro.l
                ELSE <<>>
    IN  [i \in 1..Len(flat) |->
            IF flat[i].t = "none" THEN <<>> ELSE PyStr(ElemVal(flat[i]))]

\* ra = q.get("raw_answer"); when that is None, correctOptionIndex (if the
\* key is there) or else answer.
ResolveAnswer(q) ==
    LET ra == Get(q.raw_answer)
    IN  IF ra.t # "none" THEN ra
        ELSE IF Has(q.correctOptionIndex)
             THEN LET idx == ToInt(Get(q.correctOptionIndex))
                  IN  IF idx.ok /\ 0 <= idx.n /\ idx.n < Len(letters)
                      THEN Str(<< letters[idx.n + 1] >>)
                      ELSE None
        ELSE IF Has(q.answer) THEN Str(Strip(PyStr(Get(q.answer))))
        ELSE None

\* Whether the loop body raises on q: q.get on something that is no
\* dictionary (AttributeError), re.search on a question that is no text
\* (TypeError).
NormalizeRaises(q) == ~q.isMap \/ ResolveQuestion(q).t # "str"

\* The record the loop body appends for q.
NormalizeRecord(q) ==
    LET rq == ResolveQuestion(q)
        ra == ResolveAnswer(q)
    IN  [ raw_question |-> PyStr(rq),
          raw_options |-> ResolveOptions(q),
          raw_answer |-> IF ra.t # "none" THEN PyStr(ra) ELSE <<>>,
          has_code |-> HasCode(rq.s) ]

\* The loop "for q in questions or []": [raised, out].  An exception leaves
\* the function, so nothing is produced.
Normalizer(qs) ==
    IF \E i \in 1..Len(qs) : NormalizeRaises(qs[i])
    THEN [raised |-> TRUE, out |-> <<>>]
    ELSE [raised |-> FALSE, out |-> [i \in 1..Len(qs) |-> NormalizeRecord(qs[i])]]

\* ----------------------------------------------------------- the validator

\* A mutation of Issue: question_index counts from zero.
IssueZeroBased(type, index, field, severity, action) ==
    [ type |-> type, question_index |-> index - 1, field |-> field,
      severity |-> severity, action |-> action ]

\* An issue or a warning.  field is "" unless the type is missing_field,
\* action is "" unless the warning carries one; the message text is a
\* rendering of (type, question_index, field) and is left out.
Issue(type, index, field, severity, action) ==
    [ type |-> type, question_index |-> index, field |-> field,
      severity |-> severity, action |-> action ]

required_fields == << "raw_question", "raw_answer", "raw_options" >>

FieldOf(q, name) ==
    CASE name = "raw_question" -> q.raw_question
      [] name = "raw_answer" -> q.raw_answer
      [] name = "raw_options" -> q.raw_options

\* len(v) for the values that have one.
PyLen(v) == IF v.t = "str" THEN Len(v.s) ELSE Len(v.l)
HasLen(v) == v.t \in {"str", "list", "dict"}

\* "c in v" for a one-character text c: a substring of a text, an element of
\* a list, a key of a dictionary.
PyIn(c, v) ==
    CASE v.t = "str" -> Contains(v.s, << c >>)
      [] v.t = "list" -> \E i \in 1..Len(v.l) : v.l[i].t = "str" /\ v.l[i].s = << c >>
      [] v.t = "dict" -> \E i \in 1..Len(v.l) : v.l[i].k = << c >>
      [] OTHER -> FALSE
SupportsIn(v) == v.t \in {"str", "list", "dict"}

\* check_single_question raises where the element is no dictionary or its
\* raw_question has no strip() (AttributeError).
CheckRaises(q) == ~q.isMap \/ GetDefault(q.raw_question, Str(<<>>)).t # "str"

MissingFieldIssues(q, index) ==
    LET miss(k) == IF Has(FieldOf(q, required_fields[k])) THEN <<>>
                   ELSE << Issue("missing_field", index, required_fields[k], "high", "") >>
    IN  miss(1) \o miss(2) \o miss(3)

\* A mutation of CheckSingleQuestion: the options check compares with 1.
CheckSingleQuestionOffByOne(q, index) ==
    LET options == GetDefault(q.raw_options, List(<<>>))
        answer == GetDefault(q.raw_answer, Str(<<>>))
    IN  MissingFieldIssues(q, index)
        \o (IF Strip(GetDefault(q.raw_question, Str(<<>>)).s) = <<>>
            THEN << Issue("empty_question", index, "", "high", "") >> ELSE <<>>)
        \o (IF options.t # "list"
            THEN << Issue("invalid_options", index, "", "medium", "") >>
            ELSE IF Len(options.l) < 1
            THEN << Issue("insufficient_options", index, "", "medium", "") >>
            ELSE <<>>)
        \o (IF Strip(PyStr(answer)) = <<>>
            THEN << Issue("empty_answer", index, "", "medium", "") >> ELSE <<>>)

\* The issues check_single_question returns for a record it does not raise on.
CheckSingleQuestion(q, index) ==
    LET options == GetDefault(q.raw_options, List(<<>>))
        answer == GetDefault(q.raw_answer, Str(<<>>))
    IN  MissingFieldIssues(q, index)
        \o (IF Strip(GetDefault(q.raw_question, Str(<<>>)).s) = <<>>
            THEN << Issue("empty_question", index, "", "high", "") >> ELSE <<>>)
        \o (IF options.t # "list"
            THEN << Issue("invalid_options", index, "", "medium", "") >>
            ELSE IF Len(options.l) < 2
            THEN << Issue("insufficient_options", index, "", "medium", "") >>
            ELSE <<>>)
        \o (IF Strip(PyStr(answer)) = <<>>
            THEN << Issue("empty_answer", index, "", "medium", "") >> ELSE <<>>)

\* generate_warnings raises where an element is no dictionary, its
\* raw_options has no len() or its raw_question does not support "in"
\* (TypeError).
WarningsRaise(q) ==
    \/ ~q.isMap
    \/ ~HasLen(GetDefault(q.raw_options, List(<<>>)))
    \/ ~SupportsIn(GetDefault(q.raw_question, Str(<<>>)))

\* A mutation of WarningsOf: the options warning uses the issues' threshold.
WarningsOfFewerThanTwo(q, index) ==
    LET text == GetDefault(q.raw_question, Str(<<>>))
    IN  (IF PyLen(GetDefault(q.raw_options, List(<<>>))) < 2
         THEN << Issue("incomplete_options", index, "", "low", "display_with_warning") >>
         ELSE <<>>)
        \o (IF PyIn("\n", text)
            THEN << Issue("newline_characters", index, "", "low", "") >> ELSE <<>>)
        \o (IF PyIn("\"", text) \/ PyIn("'", text)
            THEN << Issue("quote_characters", index, "", "low", "") >> ELSE <<>>)

\* A mutation of WarningsOf: no warning for a line break.
WarningsOfNoNewline(q, index) ==
    LET text == GetDefault(q.raw_question, Str(<<>>))
    IN  (IF PyLen(GetDefault(q.raw_options, List(<<>>))) < 4
         THEN << Issue("incomplete_options", index, "", "low", "display_with_warning") >>
         ELSE <<>>)
        \o (IF PyIn("\"", text) \/ PyIn("'", text)
            THEN << Issue("quote_characters", index, "", "low", "") >> ELSE <<>>)

\* The warnings generate_warnings appends for the record at position index.
WarningsOf(q, index) ==
    LET text == GetDefault(q.raw_question, Str(<<>>))
    IN  (IF PyLen(GetDefault(q.raw_options, List(<<>>))) < 4
         THEN << Issue("incomplete_options", index, "", "low", "display_with_warning") >>
         ELSE <<>>)
        \o (IF PyIn("\n", text)
            THEN << Issue("newline_characters", index, "", "low", "") >> ELSE <<>>)
        \o (IF PyIn("\"", text) \/ PyIn("'", text)
            THEN << Issue("quote_characters", index, "", "low", "") >> ELSE <<>>)

RECURSIVE Flatten(_)
Flatten(seqs) == IF seqs = <<>> THEN <<>> ELSE Head(seqs) \o Flatten(Tail(seqs))

GenerateWarnings(qs) == Flatten([i \in 1..Len(qs) |-> WarningsOf(qs[i], i)])

AllIssues(qs) == Flatten([i \in 1..Len(qs) |-> CheckSingleQuestion(qs[i], i)])

\* A mutation of ComputePassed: a warning fails the collection too.
ComputePassedWarningsBlock(qs) ==
    /\ \A i \in 1..Len(qs) : CheckSingleQuestion(qs[i], i) = <<>>
    /\ GenerateWarnings(qs) = <<>>

\* validation_result["passed"] at the end of the loop over the records.
ComputePassed(qs) == \A i \in 1..Len(qs) : CheckSingleQuestion(qs[i], i) = <<>>

\* hashlib.md5(data).hexdigest()[:8], as an ideal digest: the value stands
\* for the digest of the data it names.
CalculateChecksum(kind, text, records) ==
    [ kind |-> kind, text |-> text, records |-> records ]

ValidationRaises(qs) ==
    \/ \E i \in 1..Len(qs) : CheckRaises(qs[i])
    \/ \E i \in 1..Len(qs) : WarningsRaise(qs[i])

\* validate_question_integrity(original_text, extracted_questions), for a
\* list it does not raise on.
ValidateQuestionIntegrity(text, qs) ==
    [ original_length |-> Len(text),
      extracted_count |-> Len(qs),
      checksum |-> CalculateChecksum("text", text, <<>>),
      issues |-> AllIssues(qs),
      warnings |-> GenerateWarnings(qs),
      passed |-> ComputePassed(qs) ]

\* create_integrity_report(questions, original_text) at time ts, for a list
\* validation does not raise on.  The two recommendations are named by
\* their trigger.
CreateIntegrityReport(qs, text, ts) ==
    LET validation == ValidateQuestionIntegrity(text, qs)
    IN  [ timestamp |-> ts,
          original_text_length |-> Len(text),
          total_questions |-> Len(qs),
          checksum |-> CalculateChecksum("records", <<>>, qs),
          validation |-> validation,
          recommendations |->
              (IF Len(qs) < 10 THEN << "few_questions" >> ELSE <<>>)
              \o (IF \E k \in 1..Len(validation.warnings) :
                        validation.warnings[k].type = "incomplete_options"
                  THEN << "incomplete_options" >> ELSE <<>>) ]

\* ------------------------------------------------------ extract_quiz_data

\* if "question" in q and "raw_question" not in q: q["raw_question"] =
\* q["question"] -- the slot after the mapping, by presence of the keys.
MapField(raw, other) == IF Has(raw) THEN raw ELSE other

\* Whether the loop body raises on q: a membership test or q.get on
\* something that is no dictionary, re.search on a question that is no text.
ExtractRaises(q) ==
    \/ ~q.isMap
    \/ GetDefault(MapField(q.raw_question, q.question), Str(<<>>)).t # "str"

\* hashlib.md5(text.encode()).hexdigest()[:8], on the texts digested here.
Md5Hex8(text) ==
    CASE text = << "Q", "[", "'", "X", "'", ",", " ", "'", "Y", "'", "]" >>
          -> "cf39e4bd"
      [] text = << "Q", "[", "'", "Y", "'", ",", " ", "'", "X", "'", "]" >>
          -> "77dfd429"
      [] text = << "Q", "[", "'", "X", "'", ",", " ", "'", "X", "'", "]" >>
          -> "10d924c1"
      [] text = << "Q", "[", "\"", "X", "'", ",", " ", "'", "Y", "\"", "]" >>
          -> "9dbd8ee6"
      [] text = << "Q", "[", "'", "X", "'", ",", " ", "'", "b", "k", "q", "c", "'", "]" >>
          -> "4e611272"
      [] text = << "Q", "[", "'", "b", "k", "q", "c", "'", ",", " ", "'", "X", "'", "]" >>
          -> "fc9c81ba"
      [] text = << "Q", "[", "'", "X", "'", ",", " ", "'", "b", "z", "q", "v", "'", "]" >>
          -> "4e611272"
      [] text = << "Q", "[", "'", "b", "z", "q", "v", "'", ",", " ", "'", "X", "'", "]" >>
          -> "101bf77a"
      [] text = << "Q", "2", "[", "'", "X", "'", ",", " ", "'", "Y", "'", "]" >>
          -> "d1a7a38b"
      [] text = << "Q", "2", "[", "'", "Y", "'", ",", " ", "'", "X", "'", "]" >>
          -> "bf5e37fa"
      [] text = << "Q", "2", "[", "'", "X", "'", ",", " ", "'", "X", "'", "]" >>
          -> "433ecd2a"
      [] text = << "Q", "2", "[", "\"", "X", "'", ",", " ", "'", "Y", "\"", "]" >>
          -> "fa963595"
      [] text = << "Q", "2", "[", "'", "X", "'", ",", " ", "'", "b", "k", "q", "c", "'", "]" >>
          -> "d7f3a9b7"
      [] text = << "Q", "2", "[", "'", "b", "k", "q", "c", "'", ",", " ", "'", "X", "'", "]" >>
          -> "0fd37586"
      [] text = << "Q", "2", "[", "'", "X", "'", ",", " ", "'", "b", "z", "q", "v", "'", "]" >>
          -> "1a94921b"
      [] text = << "Q", "2", "[", "'", "b", "z", "q", "v", "'", ",", " ", "'", "X", "'", "]" >>
          -> "641444d2"

\* hashlib.md5((q.get("raw_question", "") + str(q.get("raw_options", [])))
\* .encode()).hexdigest()[:8]
RecordChecksum(q) ==
    Md5Hex8(GetDefault(q.raw_question, Str(<<>>)).s
                \o PyStr(GetDefault(q.raw_options, List(<<>>))))

\* One record after the loop body: the three slots mapped, has_code and
\* metadata.checksum added.
ExtractRecord(q) ==
    LET mapped == [ raw_question |-> MapField(q.raw_question, q.question),
                    raw_options |-> MapField(q.raw_options, q.options),
                    raw_answer |-> MapField(q.raw_answer, q.answer) ]
    IN  [ raw_question |-> mapped.raw_question,
          raw_options |-> mapped.raw_options,
          raw_answer |-> mapped.raw_answer,
          has_code |-> HasCode(GetDefault(mapped.raw_question, Str(<<>>)).s),
          checksum |-> RecordChecksum(mapped) ]

\* What extract_quiz_data returns for the questions the model answered
\* with: the records, or the one-element error list of the except branch.
ExtractedFrom(qs, answered) ==
    IF ~answered \/ \E i \in 1..Len(qs) : ExtractRaises(qs[i])
    THEN [failed |-> TRUE, out |-> <<>>]
    ELSE [failed |-> FALSE, out |-> [i \in 1..Len(qs) |-> ExtractRecord(qs[i])]]

\* -------------------------------------------------------------- the inputs

tQ == << "Q" >>
tQ2 == << "Q", "2" >>
tTitle == << "T" >>
tBlank == << " " >>
tNewline == << "Q", "\n", "x" >>
tCode == << "i", "f", " ", "(", "'", ")" >>

OptsA == List(<< EStr(<< "A" >>) >>)
OptsXY == List(<< EStr(<< "X" >>), EStr(<< "Y" >>) >>)
OptsABC == List(<< EStr(<< "A" >>), EStr(<< "B" >>), EStr(<< "C" >>) >>)
OptsXYZW ==
    List(<< EStr(<< "X" >>), EStr(<< "Y" >>), EStr(<< "Z" >>), EStr(<< "W" >>) >>)
OptsVWXYZ ==
    List(<< EStr(<< "V" >>), EStr(<< "W" >>), EStr(<< "X" >>), EStr(<< "Y" >>),
            EStr(<< "Z" >>) >>)
OptsDup == List(<< EStr(<< "X" >>), EStr(<< "X" >>) >>)
OptsMixed == List(<< EInt(1), ENone, EStr(<< "x" >>) >>)
OptsDict ==
    Dict(<< Entry(<< "B" >>, EStr(<< "y" >>)), Entry(<< "A" >>, ENone),
            Entry(<< "1", "0" >>, EInt(7)) >>)

\* Records in the standard shape (raw_question, raw_options, raw_answer).
Standard(rq, ro, ra) == RawRecord(rq, Absent, Absent, ro, Absent, ra, Absent, Absent)
\* Records in the compatible shape (question, options, answer, correctOptionIndex).
Compatible(qn, op, an, ci) == RawRecord(Absent, qn, Absent, Absent, op, Absent, an, ci)

\* What the validator's checks distinguish, in every combination.
CheckedRecords ==
    { Standard(Str(rq), ro, Str(ra)) :
        rq \in {<<>>, tNewline}, ro \in {OptsA, OptsABC}, ra \in {<<>>, << "A" >>} }

\* One slot varied over present, null and mistyped values.
QuestionVariants ==
    { Standard(rq, OptsXY, Str(<< "A" >>)) :
        rq \in {Str(tQ), None, Str(tBlank), Str(tCode), Num(5)} }

OptionVariants ==
    { Standard(Str(tQ), ro, Str(<< "A" >>)) :
        ro \in {None, OptsXYZW, OptsMixed, OptsDict} }

AnswerVariants ==
    { Standard(Str(tQ), OptsXY, ra) :
        ra \in {None, Str(<< "C" >>), Str(<< " ", "b", " " >>)} }

CompatibleRecords ==
    { Compatible(Str(tQ2), OptsXY, Str(<< " ", "b", " " >>), Absent),
      Compatible(Str(tQ2), OptsXY, Str(<< "B" >>), Num(0)),
      Compatible(Str(tQ2), OptsXY, Absent, Str(<< "1" >>)),
      Compatible(Str(tQ2), OptsXY, Absent, Num(5)),
      Compatible(Str(tQ2), OptsXY, Str(<< "B" >>), Num(30)),
      RawRecord(Str(<<>>), Str(tQ2), Str(tTitle), List(<<>>), OptsXY,
                Absent, Absent, Absent),
      RawRecord(Str(tQ), Str(tQ2), Str(tTitle), OptsA, OptsXY,
                Str(<< "A" >>), Str(<< "B" >>), Num(2)),
      RawRecord(Absent, Absent, Str(tTitle), Absent, Absent, Absent, Absent, Absent),
      RawRecord(Absent, Absent, Absent, Absent, Absent, Absent, Absent, Absent),
      NotAMapping }

RawRecords ==
    CheckedRecords \cup QuestionVariants \cup OptionVariants \cup AnswerVariants
        \cup CompatibleRecords

RECURSIVE SeqsUpTo(_, _)
SeqsUpTo(S, n) ==
    IF n = 0 THEN { <<>> }
    ELSE LET shorter == SeqsUpTo(S, n - 1)
         IN  shorter \cup { Append(q, x) : q \in shorter, x \in S }

Modes == { "random", "sequential" }
Texts == { <<>>, << "t", "x", "t" >> }
Timestamps == { "t1", "t2" }

\* --------------------------------------------------- the practice page

\* userAnswer: null until an option is selected.
NULL == -1
\* q.raw_answer after 'ABCD'[i] with i outside 0..3: no text at all.
UNDEFINED == << "undefined" >>
ABCD == << "A", "B", "C", "D" >>

\* originalQuestions.map((q, index) => ({...q, index, userAnswer: null,
\* isAnswered: false})); index is zero-based.
MapQuestions(original) ==
    [ i \in 1..Len(original) |->
        [ index |-> i - 1, userAnswer |-> NULL, isAnswered |-> FALSE ]
            @@ original[i] ]

\* A mutation of DrawSeqs: every j is drawn from the whole array.
DrawSeqsFullRange(n) == [1..(n - 1) -> 0..(n - 1)]

\* The draws of one shuffleArray call on n elements: draws[i] is the j drawn
\* at (zero-based) position i, 0 <= j <= i, for i = n-1 down to 1.
DrawSeqs(n) == { d \in [1..(n - 1) -> 0..(n - 1)] : \A i \in 1..(n - 1) : d[i] <= i }

\* A mutation of Swap: position j keeps its element.
SwapOverwrite(a, i, j) == [a EXCEPT ![i] = a[j]]

Swap(a, i, j) == [a EXCEPT ![i] = a[j], ![j] = a[i]]

RECURSIVE ShuffleFrom(_, _, _)
ShuffleFrom(a, draws, i) ==
    IF i < 1 THEN a ELSE ShuffleFrom(Swap(a, i + 1, draws[i] + 1), draws, i - 1)

\* shuffleArray(array) under the given draws: a shuffled copy.
ShuffleArray(array, draws) == ShuffleFrom(array, draws, Len(array) - 1)

\* A mutation of FindIndex: the first pair with the correct entry's text.
FindIndexByContent(pairs, correctIndex) ==
    IF \E k \in 1..Len(pairs) : pairs[k].originalIndex = correctIndex
    THEN LET text == pairs[CHOOSE k \in 1..Len(pairs) :
                              pairs[k].originalIndex = correctIndex].option
         IN  (CHOOSE k \in 1..Len(pairs) :
                /\ pairs[k].option = text
                /\ \A j \in 1..(k - 1) : pairs[j].option # text) - 1
    ELSE -1

\* shuffledPairs.findIndex(pair => pair.originalIndex === correctIndex),
\* zero-based, -1 when no pair matches.
FindIndex(pairs, correctIndex) ==
    IF \E k \in 1..Len(pairs) : pairs[k].originalIndex = correctIndex
    THEN (CHOOSE k \in 1..Len(pairs) :
            /\ pairs[k].originalIndex = correctIndex
            /\ \A j \in 1..(k - 1) : pairs[j].originalIndex # correctIndex) - 1
    ELSE -1

\* 'ABCD'[i]
LetterAt(i) == IF 0 <= i /\ i < Len(ABCD) THEN << ABCD[i + 1] >> ELSE UNDEFINED

\* The body of questions.forEach in randomizeQuestions for one question.
RandomizeOptions(q, draws) ==
    IF Len(q.raw_options) > 0
    THEN LET correctIndex == IndexOf(ABCD, q.raw_answer)
             optionPairs == [ k \in 1..Len(q.raw_options) |->
                                [option |-> q.raw_options[k], originalIndex |-> k - 1] ]
             shuffledPairs == ShuffleArray(optionPairs, draws)
             newCorrectIndex == FindIndex(shuffledPairs, correctIndex)
         IN  [ q EXCEPT
                 !.raw_options = [k \in 1..Len(shuffledPairs) |-> shuffledPairs[k].option],
                 !.raw_answer = LetterAt(newCorrectIndex) ]
    ELSE q

\* A mutation of RandomizeQuestions: another mode turns the list around.
RandomizeQuestionsReversing(qs, m, qdraws, odraws) ==
    IF m = "random"
    THEN LET shuffled == ShuffleArray(qs, qdraws)
         IN  [ k \in 1..Len(shuffled) |->
                 RandomizeOptions(shuffled[k], odraws[shuffled[k].index + 1]) ]
    ELSE [ k \in 1..Len(qs) |-> qs[Len(qs) + 1 - k] ]

\* randomizeQuestions() on the working list qs in mode m; qdraws are the
\* draws of the question shuffle, odraws[i + 1] those of the option shuffle
\* of the question whose index is i.
RandomizeQuestions(qs, m, qdraws, odraws) ==
    IF m = "random"
    THEN LET shuffled == ShuffleArray(qs, qdraws)
         IN  [ k \in 1..Len(shuffled) |->
                 RandomizeOptions(shuffled[k], odraws[shuffled[k].index + 1]) ]
    ELSE qs

\* One sequence of option draws per question of the list.
RECURSIVE OptionDraws(_)
OptionDraws(original) ==
    IF original = <<>> THEN { <<>> }
    ELSE { << d >> \o rest :
             d \in DrawSeqs(Len(Head(original).raw_options)),
             rest \in OptionDraws(Tail(original)) }

\* The records a page is generated from.
PageRawRecords ==
    { Standard(Str(tQ), OptsXYZW, Str(<< "C" >>)),
      Standard(Str(tQ), OptsVWXYZ, Str(<< "A" >>)),
      Standard(Str(tQ2), OptsDup, Str(<< "B" >>)),
      Standard(Str(tQ), OptsXY, Str(<<>>)),
      Standard(Str(tQ2), OptsA, Str(<< "C" >>)),
      Standard(Str(tQ), List(<<>>), Str(<< "A" >>)),
      Compatible(Str(tQ2), OptsXY, Str(<< " ", "b", " " >>), Absent) }

RECURSIVE TotalOptions(_)
TotalOptions(qs) ==
    IF qs = <<>> THEN 0
    ELSE PyLen(Or(Or(Get(Head(qs).raw_options), Get(Head(qs).options)), List(<<>>)))
            + TotalOptions(Tail(qs))

\* The non-empty lists of at most n records with at most k options in all.
PageInputs(n, k) ==
    { qs \in SeqsUpTo(PageRawRecords, n) : Len(qs) > 0 /\ TotalOptions(qs) <= k }

\* ------------------------------------------------------------------- state

VARIABLES
    questions_in,      \* the list handed to create_stable_html and to the validator
    normalized,        \* the normalizer's outcome: [called, raised, out]
    html,              \* create_stable_html's outcome: "none", "returned", "raised"
    report,            \* validate_and_report's outcome: [called, raised, value]
    extracted,         \* extract_quiz_data's outcome: [called, failed, out]
    mode,              \* the mode the page was generated with
    originalQuestions, \* the page's constant: the normalized records, as JSON
    loaded,            \* whether the page's script has run
    questions,         \* the page's working list
    currentIndex,      \* the page's current question, zero-based
    prevDisabled,      \* prev-btn.disabled
    nextDisabled,      \* next-btn.disabled
    optionButtons,     \* the option buttons shown: [count, disabled]
    calls,             \* the validate_and_report invocations in flight, by caller
    simple             \* extract_quiz_questions_simple: [text, called, questions]

serverVars == << questions_in, normalized, html, report, extracted, mode,
                originalQuestions, calls, simple >>
pageVars == << loaded, questions, currentIndex, prevDisabled, nextDisabled, optionButtons >>
vars == << questions_in, normalized, html, report, extracted, mode, originalQuestions,
           loaded, questions, currentIndex, prevDisabled, nextDisabled, optionButtons,
           calls, simple >>

NoReport == CreateIntegrityReport(<<>>, <<>>, "never")

NotExtracted == [called |-> FALSE, failed |-> FALSE, out |-> <<>>]

\* The callers that may be inside validate_and_report at the same time.
Callers == {1, 2}

\* One invocation: its arguments, where it stands (pc: "idle", "check",
\* "report", "done", "raised"), the loop counter of
\* validate_question_integrity and the report dictionary under
\* construction.  overlapped records that the other invocation was in
\* flight during one of its steps.
Call(pc, text, qs, k, rep, overlapped) ==
    [ pc |-> pc, text |-> text, qs |-> qs, k |-> k, report |-> rep,
      overlapped |-> overlapped ]

\* No invocation of validate_and_report is in flight or has been made.
NoCalls == <<>>

NotParsed == [text |-> <<>>, called |-> FALSE, questions |-> <<>>]

\* The page as written in the template: prev-btn carries "disabled".
PageNotLoaded ==
    /\ loaded = FALSE
    /\ questions = <<>>
    /\ currentIndex = 0
    /\ prevDisabled = TRUE
    /\ nextDisabled = FALSE
    /\ optionButtons = [count |-> 0, disabled |-> FALSE]

Init ==
    /\ questions_in \in SeqsUpTo(RawRecords, MaxQuestions)
    /\ normalized = [called |-> FALSE, raised |-> FALSE, out |-> <<>>]
    /\ html = "none"
    /\ report = [called |-> FALSE, raised |-> FALSE, value |-> NoReport]
    /\ extracted = NotExtracted
    /\ mode = "none"
    /\ originalQuestions = <<>>
    /\ calls = NoCalls
    /\ simple = NotParsed
    /\ PageNotLoaded

\* create_stable_html(questions, mode): the normalizer loop, then the page
\* template, whose progress bar divides 100 by len(questions) and whose
\* script holds json.dumps(normalized) (texts, lists and booleans come out
\* of JSON as they went in).
CreateStableHtml(m) ==
    /\ html = "none"
    /\ LET n == Normalizer(questions_in)
           raises == n.raised \/ Len(questions_in) = 0
       IN  /\ normalized' = [called |-> TRUE, raised |-> n.raised, out |-> n.out]
           /\ html' = IF raises THEN "raised" ELSE "returned"
           /\ originalQuestions' = IF raises THEN <<>> ELSE n.out
    /\ mode' = m
    /\ UNCHANGED << questions_in, report, extracted, calls, simple >>
    /\ UNCHANGED pageVars

\* validate_and_report(original_text, questions) at time ts.
ValidateAndReport(text, ts) ==
    /\ ~report.called
    /\ report' = IF ValidationRaises(questions_in)
                 THEN [called |-> TRUE, raised |-> TRUE, value |-> NoReport]
                 ELSE [called |-> TRUE, raised |-> FALSE,
                       value |-> CreateIntegrityReport(questions_in, text, ts)]
    /\ UNCHANGED << questions_in, normalized, html, extracted, mode, originalQuestions, calls, simple >>
    /\ UNCHANGED pageVars

Next ==
    \/ \E m \in Modes : CreateStableHtml(m)
    \/ \E text \in Texts, ts \in Timestamps : ValidateAndReport(text, ts)

Spec == Init /\ [][Next]_vars

\* ------------------------------------------------------ the page's handlers

\* A mutation of Displayed: the option buttons are left enabled.
DisplayedButtonsEnabled(qs, index) ==
    /\ prevDisabled' = (index = 0)
    /\ nextDisabled' = (index = Len(qs) - 1)
    /\ optionButtons' = [ count |-> Len(qs[index + 1].raw_options),
                          disabled |-> FALSE ]

\* What displayQuestion(index) leaves in the document, given the list qs.
Displayed(qs, index) ==
    /\ prevDisabled' = (index = 0)
    /\ nextDisabled' = (index = Len(qs) - 1)
    /\ optionButtons' = [ count |-> Len(qs[index + 1].raw_options),
                          disabled |-> qs[index + 1].userAnswer # NULL ]

\* A page create_stable_html returned for one of the lists in inputs, before
\* its script runs.
Returned(inputs) ==
    /\ questions_in \in inputs
    /\ normalized = [called |-> TRUE, raised |-> FALSE,
                     out |-> Normalizer(questions_in).out]
    /\ html = "returned"
    /\ report = [called |-> FALSE, raised |-> FALSE, value |-> NoReport]
    /\ extracted = NotExtracted
    /\ mode \in Modes
    /\ originalQuestions = normalized.out
    /\ calls = NoCalls
    /\ simple = NotParsed
    /\ PageNotLoaded

\* The script's top level: map, randomizeQuestions(), createNavButtons(),
\* displayQuestion(currentIndex).
PageLoad(qdraws, odraws) ==
    /\ html = "returned"
    /\ ~loaded
    /\ loaded' = TRUE
    /\ questions' = RandomizeQuestions(MapQuestions(originalQuestions), mode, qdraws, odraws)
    /\ currentIndex' = 0
    /\ Displayed(questions', 0)
    /\ UNCHANGED serverVars

\* Click on the option button i of the question shown (a disabled button
\* dispatches no click): selectAnswer(i).
SelectAnswer(i) ==
    /\ loaded
    /\ ~optionButtons.disabled
    /\ i < optionButtons.count
    /\ questions' = [questions EXCEPT ![currentIndex + 1].userAnswer = i,
                                      ![currentIndex + 1].isAnswered = TRUE]
    /\ optionButtons' = [optionButtons EXCEPT !.disabled = TRUE]
    /\ UNCHANGED << loaded, currentIndex, prevDisabled, nextDisabled >>
    /\ UNCHANGED serverVars

\* The click handler of prev-btn.
PrevHandler ==
    IF currentIndex > 0
    THEN /\ currentIndex' = currentIndex - 1
         /\ Displayed(questions, currentIndex')
         /\ UNCHANGED << loaded, questions >>
    ELSE UNCHANGED pageVars

\* The click handler of next-btn.
NextHandler ==
    IF currentIndex < Len(questions) - 1
    THEN /\ currentIndex' = currentIndex + 1
         /\ Displayed(questions, currentIndex')
         /\ UNCHANGED << loaded, questions >>
    ELSE UNCHANGED pageVars

PrevClick == loaded /\ ~prevDisabled /\ PrevHandler /\ UNCHANGED serverVars

NextClick == loaded /\ ~nextDisabled /\ NextHandler /\ UNCHANGED serverVars

\* A mutation of KeyDown: the right arrow moves on without looking at
\* next-btn.
KeyDownUnguarded(key) ==
    /\ loaded
    /\ IF key = "ArrowRight"
       THEN /\ currentIndex' = currentIndex + 1
            /\ UNCHANGED << loaded, questions, prevDisabled, nextDisabled, optionButtons >>
       ELSE UNCHANGED pageVars
    /\ UNCHANGED serverVars

\* The keydown handler: the arrow keys click an enabled button.
KeyDown(key) ==
    /\ loaded
    /\ IF key = "ArrowLeft" /\ ~prevDisabled THEN PrevHandler
       ELSE IF key = "ArrowRight" /\ ~nextDisabled THEN NextHandler
       ELSE UNCHANGED pageVars
    /\ UNCHANGED serverVars

\* Click on the quick-navigation button of position i (zero-based).
NavClick(i) ==
    /\ loaded
    /\ i < Len(questions)
    /\ currentIndex' = i
    /\ Displayed(questions, i)
    /\ UNCHANGED << loaded, questions >>
    /\ UNCHANGED serverVars

\* Click on restart-btn; confirmed is the answer to confirm().
RestartClick(confirmed, qdraws, odraws) ==
    /\ loaded
    /\ IF confirmed
       THEN /\ questions' = RandomizeQuestions(MapQuestions(originalQuestions), mode,
                                               qdraws, odraws)
            /\ currentIndex' = 0
            /\ Displayed(questions', 0)
            /\ UNCHANGED loaded
       ELSE UNCHANGED pageVars
    /\ UNCHANGED serverVars

Keys == { "ArrowLeft", "ArrowRight", "Enter" }

\* The draws one run of randomizeQuestions makes: Math.random() is called in
\* random mode only, and not at all when the run is not made.
QuestionDrawsMade(made) ==
    IF made /\ mode = "random" THEN DrawSeqs(Len(originalQuestions)) ELSE { <<>> }
OptionDrawsMade(made) ==
    IF made /\ mode = "random" THEN OptionDraws(originalQuestions) ELSE { <<>> }

PageNext ==
    \/ \E qd \in QuestionDrawsMade(TRUE), od \in OptionDrawsMade(TRUE) :
            PageLoad(qd, od)
    \/ \E i \in 0..(MaxPageOptions - 1) : SelectAnswer(i)
    \/ PrevClick
    \/ NextClick
    \/ \E key \in Keys : KeyDown(key)
    \/ \E i \in 0..(MaxPageQuestions - 1) : NavClick(i)
    \/ \E confirmed \in BOOLEAN :
         \E qd \in QuestionDrawsMade(confirmed), od \in OptionDrawsMade(confirmed) :
            RestartClick(confirmed, qd, od)

PageInit == Returned(PageInputs(MaxPageQuestions, MaxPageOptions))

PageSpec == PageInit /\ [][PageNext]_vars

\* The same handlers on pages of fewer options, for what holds of every
\* click and key.
MaxNavQuestions == 2
MaxNavOptions == 2

NavInit == Returned(PageInputs(MaxNavQuestions, MaxNavOptions))

NavSpec == NavInit /\ [][PageNext]_vars

\* Randomization on its own: the script's top level on larger lists.
LoadInit == Returned(PageInputs(MaxLoadQuestions, MaxLoadOptions))

LoadNext ==
    \E qd \in QuestionDrawsMade(TRUE), od \in OptionDrawsMade(TRUE) :
        PageLoad(qd, od)

LoadSpec == LoadInit /\ [][LoadNext]_vars

\* The page load alone on shorter lists, for what holds of every sequence of
\* draws of a shuffle.
MaxShuffleQuestions == 2
MaxShuffleOptions == 4

ShuffleInit == Returned(PageInputs(MaxShuffleQuestions, MaxShuffleOptions))

ShuffleSpec == ShuffleInit /\ [][LoadNext]_vars

\* ------------------------------------- extraction and the stable_api page

\* The most questions the model's answer holds.
MaxStableQuestions == 2

\* One option whose text looks like two options.
OptsQuoted == List(<< EStr(<< "X", "'", ",", " ", "'", "Y" >>) >>)

\* Two option lists that differ in one option text.
OptsXBkqc == List(<< EStr(<< "X" >>), EStr(<< "b", "k", "q", "c" >>) >>)
OptsXBzqv == List(<< EStr(<< "X" >>), EStr(<< "b", "z", "q", "v" >>) >>)

\* What the model answers with: records in either naming, and answers the
\* loop body raises on.
StableRecords ==
    { Standard(Str(tQ), OptsXY, Str(<< "A" >>)),
      Standard(Str(tQ), OptsXY, Str(<< "B" >>)),
      Standard(Str(tQ), OptsDup, Str(<< "A" >>)),
      Standard(Str(tQ), OptsQuoted, Str(<< "A" >>)),
      Standard(Str(tQ), OptsXBkqc, Str(<< "A" >>)),
      Standard(Str(tQ), OptsXBzqv, Str(<< "A" >>)),
      Standard(Str(tQ2), OptsXY, Str(<< "B" >>)),
      Compatible(Str(tQ), OptsXY, Str(<< "A" >>), Absent),
      Standard(None, OptsXY, Str(<< "A" >>)),
      NotAMapping }

\* extract_quiz_data(text); answered is whether the model's answer arrived
\* and parsed as JSON, questions_in its "questions".
ExtractQuizData(answered) ==
    /\ ~extracted.called
    /\ extracted' = [ called |-> TRUE,
                      failed |-> ExtractedFrom(questions_in, answered).failed,
                      out |-> ExtractedFrom(questions_in, answered).out ]
    /\ UNCHANGED << questions_in, normalized, html, report, mode, originalQuestions, calls, simple >>
    /\ UNCHANGED pageVars

\* An extracted record as the page's script holds it after json.dumps.
JsonRecord(e) ==
    [ raw_question |-> e.raw_question.s,
      raw_options |-> [k \in 1..Len(e.raw_options.l) |-> e.raw_options.l[k].s],
      raw_answer |-> e.raw_answer.s,
      has_code |-> e.has_code,
      checksum |-> e.checksum ]

\* stable_api's create_stable_html(questions, mode) on the extracted
\* records: no normalizer, the records go into the script as they are.
StableCreateStableHtml(m) ==
    /\ extracted.called /\ ~extracted.failed
    /\ html = "none"
    /\ html' = IF Len(extracted.out) = 0 THEN "raised" ELSE "returned"
    /\ originalQuestions' = [i \in 1..Len(extracted.out) |-> JsonRecord(extracted.out[i])]
    /\ mode' = m
    /\ UNCHANGED << questions_in, normalized, report, extracted, calls, simple >>
    /\ UNCHANGED pageVars

StableInit ==
    /\ questions_in \in SeqsUpTo(StableRecords, MaxStableQuestions)
    /\ normalized = [called |-> FALSE, raised |-> FALSE, out |-> <<>>]
    /\ html = "none"
    /\ report = [called |-> FALSE, raised |-> FALSE, value |-> NoReport]
    /\ extracted = NotExtracted
    /\ mode = "none"
    /\ originalQuestions = <<>>
    /\ calls = NoCalls
    /\ simple = NotParsed
    /\ PageNotLoaded

StableNext ==
    \/ \E answered \in BOOLEAN : ExtractQuizData(answered)
    \/ \E m \in Modes : StableCreateStableHtml(m)
    \/ \E qd \in QuestionDrawsMade(TRUE), od \in OptionDrawsMade(TRUE) :
            PageLoad(qd, od)

StableSpec == StableInit /\ [][StableNext]_vars

\* ------------------------------------- concurrent validate_and_report

\* The longest record list the first invocation is handed; the second is
\* handed one record at most.
MaxConcurrentQuestions == 2

\* Records for the concurrent invocations: a line break and three options;
\* a quote, four options and an empty answer; nothing to report; a
\* raw_question the validator raises on.
ConcurrentRecords ==
    { Standard(Str(tNewline), OptsABC, Str(<< "A" >>)),
      Standard(Str(tCode), OptsXYZW, Str(<<>>)),
      Standard(Str(tQ), OptsXYZW, Str(<< "A" >>)),
      Standard(None, OptsXY, Str(<< "A" >>)) }

\* A mutation of Accumulated: one issue list shared by every invocation.
AccumulatedShared(i) == calls[1].report.validation.issues

\* validation_result["issues"] of invocation i: the list its own
\* validate_question_integrity created and extends.
Accumulated(i) == calls[i].report.validation.issues

OtherInFlight(i) == \E j \in Callers \ {i} : calls[j].pc \in {"check", "report"}

\* validate_and_report is entered: a new validator, then the report
\* dictionary up to its "validation" entry and the fresh validation_result.
Begin(i, ts) ==
    /\ calls[i].pc = "idle"
    /\ LET c == calls[i]
           validation == [ original_length |-> Len(c.text),
                           extracted_count |-> Len(c.qs),
                           checksum |-> CalculateChecksum("text", c.text, <<>>),
                           issues |-> <<>>,
                           warnings |-> <<>>,
                           passed |-> TRUE ]
           rep == [ timestamp |-> ts,
                    original_text_length |-> Len(c.text),
                    total_questions |-> Len(c.qs),
                    checksum |-> CalculateChecksum("records", <<>>, c.qs),
                    validation |-> validation,
                    recommendations |-> <<>> ]
       IN  calls' = [calls EXCEPT ![i] =
                        Call("check", c.text, c.qs, 0, rep, OtherInFlight(i))]
    /\ UNCHANGED << questions_in, normalized, html, report, extracted, mode,
                    originalQuestions, simple >>
    /\ UNCHANGED pageVars

\* One turn of the loop over the records: check_single_question, extend,
\* clear passed.
CheckStep(i) ==
    /\ calls[i].pc = "check"
    /\ calls[i].k < Len(calls[i].qs)
    /\ LET c == calls[i]
           q == c.qs[c.k + 1]
           issues == CheckSingleQuestion(q, c.k + 1)
           validation == [c.report.validation EXCEPT
                             !.issues = Accumulated(i) \o issues,
                             !.passed = IF issues # <<>> THEN FALSE ELSE @]
       IN  calls' = [calls EXCEPT ![i] =
                        IF CheckRaises(q)
                        THEN Call("raised", c.text, c.qs, c.k, c.report,
                                  c.overlapped \/ OtherInFlight(i))
                        ELSE Call("check", c.text, c.qs, c.k + 1,
                                  [c.report EXCEPT !.validation = validation],
                                  c.overlapped \/ OtherInFlight(i))]
    /\ UNCHANGED << questions_in, normalized, html, report, extracted, mode,
                    originalQuestions, simple >>
    /\ UNCHANGED pageVars

\* The loop is over: generate_warnings, and validate_question_integrity
\* returns into the report dictionary.
WarnStep(i) ==
    /\ calls[i].pc = "check"
    /\ calls[i].k = Len(calls[i].qs)
    /\ LET c == calls[i]
           validation == [c.report.validation EXCEPT
                             !.warnings = GenerateWarnings(c.qs)]
       IN  calls' = [calls EXCEPT ![i] =
                        IF \E n \in 1..Len(c.qs) : WarningsRaise(c.qs[n])
                        THEN Call("raised", c.text, c.qs, c.k, c.report,
                                  c.overlapped \/ OtherInFlight(i))
                        ELSE Call("report", c.text, c.qs, c.k,
                                  [c.report EXCEPT !.validation = validation],
                                  c.overlapped \/ OtherInFlight(i))]
    /\ UNCHANGED << questions_in, normalized, html, report, extracted, mode,
                    originalQuestions, simple >>
    /\ UNCHANGED pageVars

\* The recommendations, and create_integrity_report returns.
ReportStep(i) ==
    /\ calls[i].pc = "report"
    /\ LET c == calls[i]
           recommendations ==
               (IF Len(c.qs) < 10 THEN << "few_questions" >> ELSE <<>>)
               \o (IF \E n \in 1..Len(c.report.validation.warnings) :
                         c.report.validation.warnings[n].type = "incomplete_options"
                   THEN << "incomplete_options" >> ELSE <<>>)
       IN  calls' = [calls EXCEPT ![i] =
                        Call("done", c.text, c.qs, c.k,
                             [c.report EXCEPT !.recommendations = recommendations],
                             c.overlapped \/ OtherInFlight(i))]
    /\ UNCHANGED << questions_in, normalized, html, report, extracted, mode,
                    originalQuestions, simple >>
    /\ UNCHANGED pageVars

ConcurrentInit ==
    /\ questions_in = <<>>
    /\ normalized = [called |-> FALSE, raised |-> FALSE, out |-> <<>>]
    /\ html = "none"
    /\ report = [called |-> FALSE, raised |-> FALSE, value |-> NoReport]
    /\ extracted = NotExtracted
    /\ mode = "none"
    /\ originalQuestions = <<>>
    /\ \E text1 \in Texts, text2 \in Texts,
          qs1 \in SeqsUpTo(ConcurrentRecords, MaxConcurrentQuestions),
          qs2 \in SeqsUpTo(ConcurrentRecords, 1) :
            calls = [i \in Callers |->
                        IF i = 1 THEN Call("idle", text1, qs1, 0, NoReport, FALSE)
                        ELSE Call("idle", text2, qs2, 0, NoReport, FALSE)]
    /\ simple = NotParsed
    /\ PageNotLoaded

ConcurrentNext ==
    \/ \E i \in Callers, ts \in Timestamps : Begin(i, ts)
    \/ \E i \in Callers : CheckStep(i)
    \/ \E i \in Callers : WarnStep(i)
    \/ \E i \in Callers : ReportStep(i)

ConcurrentSpec == ConcurrentInit /\ [][ConcurrentNext]_vars

\* ------------------------------------------ extract_quiz_questions_simple

\* The characters of the answer keywords outside ASCII, one element each:
\* U+7B54, U+6848, U+FF1A (full-width colon), U+3010, U+3011.
chDa == "<U+7B54>"
chAn == "<U+6848>"
chColon == "<U+FF1A>"
chOpen == "<U+3010>"
chClose == "<U+3011>"

kwBracket == << chOpen, chDa, chAn, chClose >>
kwFullWidth == << chDa, chAn, chColon >>
kwAscii == << chDa, chAn, ":" >>

\* any(keyword in s for keyword in [...])
HasAnswerKeyword(s) ==
    Contains(s, kwBracket) \/ Contains(s, kwFullWidth) \/ Contains(s, kwAscii)

\* s.split('\n')
RECURSIVE SplitLines(_)
SplitLines(s) ==
    IF \E i \in 1..Len(s) : s[i] = "\n"
    THEN LET i == CHOOSE i \in 1..Len(s) :
                      s[i] = "\n" /\ \A j \in 1..(i - 1) : s[j] # "\n"
         IN  << SubSeq(s, 1, i - 1) >> \o SplitLines(SubSeq(s, i + 1, Len(s)))
    ELSE << s >>

\* The lines of each block of re.split(r'\n\s*\n', text), stripped and
\* without the empty ones: the separator matches a line break, whitespace
\* and a line break, so a block ends where a whitespace-only line stands
\* between two lines, and the whitespace-only lines a block keeps at either
\* end are dropped by the filter.  current is the block being collected.
RECURSIVE BlocksFrom(_, _)
BlocksFrom(lines, current) ==
    IF lines = <<>> THEN << current >>
    ELSE IF Strip(Head(lines)) = <<>>
    THEN << current >> \o BlocksFrom(Tail(lines), <<>>)
    ELSE BlocksFrom(Tail(lines), Append(current, Strip(Head(lines))))

QuestionBlocks(text) == BlocksFrom(SplitLines(text), <<>>)

RECURSIVE DigitPrefix(_)
DigitPrefix(s) == IF s # <<>> /\ IsDigit(Head(s)) THEN 1 + DigitPrefix(Tail(s)) ELSE 0

\* re.sub(r'^\d+\.\s*', '', question_line)
StripNumber(line) ==
    LET n == DigitPrefix(line)
    IN  IF n >= 1 /\ Len(line) > n /\ line[n + 1] = "."
        THEN LStrip(SubSeq(line, n + 2, Len(line)))
        ELSE line

IsAToD(c) == c \in {"A", "B", "C", "D"}

\* re.match(r'^[A-D][\.\s]', line)
IsSeparatedOption(line) ==
    Len(line) >= 2 /\ IsAToD(line[1]) /\ (line[2] = "." \/ IsSpace(line[2]))

RECURSIVE DropDotsAndSpaces(_)
DropDotsAndSpaces(s) ==
    IF s # <<>> /\ (Head(s) = "." \/ IsSpace(Head(s)))
    THEN DropDotsAndSpaces(Tail(s)) ELSE s

\* re.sub(r'^[A-D][\.\s]+', '', line) for a line of that format.
SeparatedOptionText(line) == DropDotsAndSpaces(Tail(line))

\* re.match(r'^[A-D][^A-D\s]', line)
IsBareOption(line) ==
    Len(line) >= 2 /\ IsAToD(line[1]) /\ ~IsAToD(line[2]) /\ ~IsSpace(line[2])

\* The loop over lines[1:]: the options collected up to the first answer
\* line, and that line ("" when there is none).
RECURSIVE ScanLines(_, _)
ScanLines(lines, options) ==
    IF lines = <<>> THEN [options |-> options, answer_line |-> <<>>]
    ELSE IF IsSeparatedOption(Head(lines))
    THEN ScanLines(Tail(lines), Append(options, SeparatedOptionText(Head(lines))))
    ELSE IF IsBareOption(Head(lines))
    THEN ScanLines(Tail(lines), Append(options, Tail(Head(lines))))
    ELSE IF HasAnswerKeyword(Head(lines))
    THEN [options |-> options, answer_line |-> Head(lines)]
    ELSE ScanLines(Tail(lines), options)

\* re.search(keyword + '([A-D])', answer_line) and ord(letter) - ord('A');
\* correct_index stays 0 without a match.
LetterAfter(line, keyword) ==
    LET hits == { i \in 1..Len(line) :
                    /\ OccursAt(line, keyword, i)
                    /\ i + Len(keyword) <= Len(line)
                    /\ IsAToD(line[i + Len(keyword)]) }
    IN  IF hits = {} THEN 0
        ELSE LET first == CHOOSE i \in hits : \A j \in hits : i <= j
             IN  IndexOf(ABCD, << line[first + Len(keyword)] >>)

CorrectIndex(answer_line) ==
    IF Contains(answer_line, kwBracket) THEN LetterAfter(answer_line, kwBracket)
    ELSE IF Contains(answer_line, kwFullWidth) THEN LetterAfter(answer_line, kwFullWidth)
    ELSE IF Contains(answer_line, kwAscii) THEN LetterAfter(answer_line, kwAscii)
    ELSE 0

\* The body of the loop over the blocks: the question a block yields, if any.
ParseBlock(lines) ==
    IF (\E i \in 1..Len(lines) : HasAnswerKeyword(lines[i])) /\ Len(lines) >= 3
    THEN LET scanned == ScanLines(Tail(lines), <<>>)
         IN  IF Len(scanned.options) >= 2
             THEN << [ question |-> StripNumber(lines[1]),
                       options |-> scanned.options,
                       correctOptionIndex |-> CorrectIndex(scanned.answer_line) ] >>
             ELSE <<>>
    ELSE <<>>

\* extract_quiz_questions_simple(text)
ExtractQuizQuestionsSimple(text) ==
    IF HasAnswerKeyword(text)
    THEN LET blocks == QuestionBlocks(text)
         IN  Flatten([b \in 1..Len(blocks) |-> ParseBlock(blocks[b])])
    ELSE <<>>

\* The most blocks a text holds.
MaxSimpleBlocks == 2

RECURSIVE JoinLines(_)
JoinLines(lines) ==
    IF lines = <<>> THEN <<>>
    ELSE IF Len(lines) = 1 THEN Head(lines)
    ELSE Head(lines) \o << "\n" >> \o JoinLines(Tail(lines))

SimpleQuestionLines == { << "Q" >>, << "1", ".", " ", "Q" >> }

SimpleOptionLines ==
    { <<>>,
      << << "A", ".", " ", "x" >> >>,
      << << "A", ".", " ", "x" >>, << "B", ".", " ", "y" >> >>,
      << << "A", ".", " ", "x" >>, << "B", " ", "y" >>, << "C", "z" >> >>,
      << << "A", "x" >>, << "B", "y" >>, << "C", "z" >>, << "D", ".", "w" >> >> }

SimpleAnswerLines ==
    { <<>>,
      << kwFullWidth \o << "A" >> >>,
      << kwFullWidth \o << "D" >> >>,
      << kwBracket \o << "C" >> >>,
      << kwAscii \o << "B" >> >>,
      << kwFullWidth \o << " ", "A" >> >> }

\* One block: a question line, option lines, an answer line or none.
SimpleBlocks ==
    { JoinLines(<< q >> \o opts \o ans) :
        q \in SimpleQuestionLines, opts \in SimpleOptionLines, ans \in SimpleAnswerLines }

\* The blocks with an empty line between them.
RECURSIVE JoinBlocks(_)
JoinBlocks(blocks) ==
    IF blocks = <<>> THEN <<>>
    ELSE IF Len(blocks) = 1 THEN Head(blocks)
    ELSE Head(blocks) \o << "\n", "\n" >> \o JoinBlocks(Tail(blocks))

\* The texts of at most n blocks.
SimpleTexts(n) == { JoinBlocks(bs) : bs \in SeqsUpTo(SimpleBlocks, n) }

\* A call of extract_quiz_questions_simple(simple.text).
SimpleExtract ==
    /\ ~simple.called
    /\ simple' = [ text |-> simple.text, called |-> TRUE,
                   questions |-> ExtractQuizQuestionsSimple(simple.text) ]
    /\ UNCHANGED << questions_in, normalized, html, report, extracted, mode,
                    originalQuestions, calls >>
    /\ UNCHANGED pageVars

SimpleInit ==
    /\ questions_in = <<>>
    /\ normalized = [called |-> FALSE, raised |-> FALSE, out |-> <<>>]
    /\ html = "none"
    /\ report = [called |-> FALSE, raised |-> FALSE, value |-> NoReport]
    /\ extracted = NotExtracted
    /\ mode = "none"
    /\ originalQuestions = <<>>
    /\ calls = NoCalls
    /\ \E text \in SimpleTexts(MaxSimpleBlocks) : simple = [text |-> text, called |-> FALSE, questions |-> <<>>]
    /\ PageNotLoaded

SimpleNext == SimpleExtract

SimpleSpec == SimpleInit /\ [][SimpleNext]_vars

\* ------------------------------------------------------------------ claims

\* The list handed in holds dictionaries only.
AllMappings == \A i \in 1..Len(questions_in) : questions_in[i].isMap

Validated == report.called /\ ~report.raised
Validation == report.value.validation

\* The correct option index a raw_answer names: the alphabetic position of
\* a one-letter answer, -1 (unknown) for anything else.
AlphabeticIndex(answer) ==
    IF Len(answer) = 1 /\ \E k \in 1..Len(letters) : letters[k] = answer[1]
    THEN (CHOOSE k \in 1..Len(letters) : letters[k] = answer[1]) - 1
    ELSE -1

IndexInRange(r) ==
    \/ AlphabeticIndex(r.raw_answer) = -1
    \/ AlphabeticIndex(r.raw_answer) < Len(r.raw_options)

\* C1 -- Count preservation: whatever list of N dictionaries is handed in,
\* the normalizer yields exactly N records and the validator returns a
\* report whose extracted_count is N.
C1_CountPreservation ==
    AllMappings =>
        /\ normalized.called =>
              ~normalized.raised /\ Len(normalized.out) = Len(questions_in)
        /\ report.called =>
              ~report.raised /\ Validation.extracted_count = Len(questions_in)

\* C2 -- Index-range invariant: every record of the generated page, as
\* normalized and as randomized, has a correct option index that is unknown
\* or lies within its options.
C2_IndexInRange ==
    /\ \A i \in 1..Len(originalQuestions) : IndexInRange(originalQuestions[i])
    /\ \A k \in 1..Len(questions) : IndexInRange(questions[k])

\* C3 -- Shuffle correctness: in random mode, a record whose correct index c
\* lies within its options has, after randomizeQuestions, a correct index
\* within its options that designates the option that stood at c.
C3_ShuffleKeepsCorrectOption ==
    (loaded /\ mode = "random") =>
        \A k \in 1..Len(questions) :
            LET before == originalQuestions[questions[k].index + 1]
                c == AlphabeticIndex(before.raw_answer)
                new == AlphabeticIndex(questions[k].raw_answer)
            IN  (0 <= c /\ c < Len(before.raw_options)) =>
                    /\ 0 <= new /\ new < Len(questions[k].raw_options)
                    /\ questions[k].raw_options[new + 1] = before.raw_options[c + 1]

\* C4 -- Identity mode: in a mode other than "random" the working list
\* holds the records in the order supplied, each with its options and its
\* answer as supplied, after the page has loaded and after every restart.
C4_IdentityMode ==
    (loaded /\ mode # "random") =>
        /\ Len(questions) = Len(originalQuestions)
        /\ \A k \in 1..Len(questions) :
              /\ questions[k].index = k - 1
              /\ questions[k].raw_question = originalQuestions[k].raw_question
              /\ questions[k].raw_options = originalQuestions[k].raw_options
              /\ questions[k].raw_answer = originalQuestions[k].raw_answer

\* A sequential page of two records with options, one of them answered.
C4_Witness ==
    /\ loaded /\ mode = "sequential"
    /\ Len(questions) = 2
    /\ Len(questions[1].raw_options) = 2
    /\ Len(questions[2].raw_options) >= 1
    /\ questions[2].userAnswer # NULL

\* C5 -- passed is false exactly when the report holds at least one issue;
\* warnings do not count.
C5_PassedIffNoIssue ==
    Validated => (Validation.passed <=> Validation.issues = <<>>)

\* A report with warnings and no issue, which passes.
C5_Witness ==
    /\ Validated
    /\ Len(questions_in) = 2
    /\ Validation.warnings # <<>>
    /\ Validation.issues = <<>>
    /\ Validation.passed

\* The issues of the report that belong to the record at position i.
IssuesAt(i) == SelectSeq(Validation.issues, LAMBDA x : x.question_index = i)
WarningsAt(i) == SelectSeq(Validation.warnings, LAMBDA x : x.question_index = i)

CountOf(list, type) == Cardinality({ k \in 1..Len(list) : list[k].type = type })

\* What the checks of the table look at in record q.
SlotAbsent(q, name) == FieldOf(q, name).t = "absent"
QuestionBlank(q) == q.raw_question.t = "absent" \/ Strip(q.raw_question.s) = <<>>
OptionsNoSequence(q) == q.raw_options.t \notin {"absent", "list"}
OptionsFewerThanTwo(q) ==
    q.raw_options.t = "absent" \/ (q.raw_options.t = "list" /\ Len(q.raw_options.l) < 2)
AnswerBlank(q) == q.raw_answer.t = "absent" \/ Strip(PyStr(q.raw_answer)) = <<>>

Bit(b) == IF b THEN 1 ELSE 0

C6Record == Standard(Str(<<>>), OptsA, Str(<<>>))

\* C6 -- One issue per failed check and no other: missing_field (high) per
\* absent slot, empty_question (high), invalid_options (medium),
\* insufficient_options (medium), empty_answer (medium); the record
\* {raw_question: "", raw_options: ["A"], raw_answer: ""} yields exactly
\* empty_question, insufficient_options and empty_answer, and fails.
C6_OneIssuePerFailedCheck ==
    Validated =>
        \A i \in 1..Len(questions_in) :
            LET q == questions_in[i]
                found == IssuesAt(i)
            IN  /\ \A f \in {"raw_question", "raw_answer", "raw_options"} :
                      Cardinality({ k \in 1..Len(found) :
                                      /\ found[k].type = "missing_field"
                                      /\ found[k].field = f
                                      /\ found[k].severity = "high" })
                          = Bit(SlotAbsent(q, f))
                /\ CountOf(found, "empty_question") = Bit(QuestionBlank(q))
                /\ CountOf(found, "invalid_options") = Bit(OptionsNoSequence(q))
                /\ CountOf(found, "insufficient_options") = Bit(OptionsFewerThanTwo(q))
                /\ CountOf(found, "empty_answer") = Bit(AnswerBlank(q))
                /\ Len(found) =
                      Bit(SlotAbsent(q, "raw_question")) + Bit(SlotAbsent(q, "raw_answer"))
                        + Bit(SlotAbsent(q, "raw_options")) + Bit(QuestionBlank(q))
                        + Bit(OptionsNoSequence(q)) + Bit(OptionsFewerThanTwo(q))
                        + Bit(AnswerBlank(q))
                /\ \A k \in 1..Len(found) :
                      found[k].severity =
                          IF found[k].type \in {"missing_field", "empty_question"}
                          THEN "high" ELSE "medium"
                /\ q = C6Record =>
                      /\ found = << Issue("empty_question", i, "", "high", ""),
                                    Issue("insufficient_options", i, "", "medium", ""),
                                    Issue("empty_answer", i, "", "medium", "") >>
                      /\ ~Validation.passed

\* The record of the example validated next to a record with absent slots.
C6_Witness ==
    /\ Validated
    /\ Len(questions_in) = 2
    /\ questions_in[1] = C6Record
    /\ CountOf(IssuesAt(2), "missing_field") = 3

C7Record == Standard(Str(tNewline), OptsABC, Str(<< "A" >>))

\* C7 -- Warning-only case: a record with its three slots, a question with
\* a line break, three options and answer "A" yields no issue and the
\* warnings newline_characters and incomplete_options; alone it passes.
C7_WarningOnly ==
    Validated =>
        \A i \in 1..Len(questions_in) :
            questions_in[i] = C7Record =>
                /\ IssuesAt(i) = <<>>
                /\ CountOf(WarningsAt(i), "newline_characters") >= 1
                /\ CountOf(WarningsAt(i), "incomplete_options") >= 1
                /\ Len(WarningsAt(i)) >= 2
                /\ Len(questions_in) = 1 => Validation.passed

C7_Witness ==
    /\ Validated
    /\ questions_in = << C7Record >>
    /\ Validation.passed

\* C8 -- Validator totality: for a list of dictionaries, whatever the types
\* of their values, validate_and_report returns a report.
C8_ValidatorTotal == (AllMappings /\ report.called) => ~report.raised

\* C9 -- Normalizer totality: the normalizer never raises, and every element
\* of the list yields a fully populated record.
C9_NormalizerTotal ==
    normalized.called =>
        /\ ~normalized.raised
        /\ Len(normalized.out) = Len(questions_in)

\* The first of the values that Python takes as true, none if there is none.
FirstUsable(values) ==
    IF \E k \in 1..Len(values) : Truthy(values[k])
    THEN values[CHOOSE k \in 1..Len(values) :
                    Truthy(values[k]) /\ \A j \in 1..(k - 1) : ~Truthy(values[j])]
    ELSE None

\* C10 -- Field resolution by priority: question text from raw_question,
\* else question, else title; the answer from raw_answer, else answer, else
\* correctOptionIndex.
C10_FieldPriority ==
    (normalized.called /\ ~normalized.raised) =>
        \A i \in 1..Len(questions_in) :
            LET q == questions_in[i]
                out == normalized.out[i]
                text == FirstUsable(<< q.raw_question, q.question, q.title >>)
            IN  /\ out.raw_question = IF text.t = "none" THEN <<>> ELSE PyStr(text)
                /\ (q.raw_answer.t \in {"absent", "none"} /\ Has(q.answer)) =>
                      out.raw_answer = Strip(PyStr(q.answer))
                /\ (q.raw_answer.t \notin {"absent", "none"}) =>
                      out.raw_answer = PyStr(q.raw_answer)

\* C11 -- correctOptionIndex is range-checked against the record's options:
\* where the answer comes from a correctOptionIndex outside
\* 0..len(options)-1, the normalized answer is the empty (unknown) answer.
C11_IndexRangeChecked ==
    (normalized.called /\ ~normalized.raised) =>
        \A i \in 1..Len(questions_in) :
            LET q == questions_in[i]
                out == normalized.out[i]
                idx == ToInt(Get(q.correctOptionIndex))
            IN  (/\ Get(q.raw_answer).t = "none"
                 /\ Has(q.correctOptionIndex)
                 /\ idx.ok
                 /\ (idx.n < 0 \/ idx.n >= Len(out.raw_options)))
                    => out.raw_answer = <<>>

\* The capital of a letter, any other character as it is.
LowerLetters ==
    << "a", "b", "c", "d", "e", "f", "g", "h", "i", "j", "k", "l", "m", "n",
       "o", "p", "q", "r", "s", "t", "u", "v", "w", "x", "y", "z" >>

UpperChar(c) ==
    IF \E k \in 1..Len(LowerLetters) : LowerLetters[k] = c
    THEN letters[CHOOSE k \in 1..Len(LowerLetters) : LowerLetters[k] = c]
    ELSE c

Upper(s) == [k \in 1..Len(s) |-> UpperChar(s[k])]

\* The answer text a record supplies: raw_answer, else answer.
SuppliedAnswer(q) ==
    IF Get(q.raw_answer).t = "str" THEN q.raw_answer
    ELSE IF Get(q.raw_answer).t = "none" /\ ~Has(q.correctOptionIndex)
            /\ Get(q.answer).t = "str" THEN q.answer
    ELSE None

\* C12 -- An answer letter in any case and with surrounding whitespace
\* resolves, on the page, to the index of its alphabetic position when that
\* position names an option, and to -1 when it names none.
C12_LetterCaseAndWhitespace ==
    (normalized.called /\ ~normalized.raised) =>
        \A i \in 1..Len(questions_in) :
            LET q == questions_in[i]
                out == normalized.out[i]
                a == SuppliedAnswer(q)
                position == AlphabeticIndex(Upper(Strip(a.s)))
            IN  (a.t = "str" /\ position >= 0) =>
                    IndexOf(ABCD, out.raw_answer) =
                        IF position < Len(out.raw_options) THEN position ELSE -1

\* C13 -- Letter/index round trip: for every index i below a record's
\* option count, the letter of i (letters[i], as the normalizer writes it)
\* is read back by the page as i, and the page writes i as that letter.
C13_LetterIndexRoundTrip ==
    loaded =>
        \A k \in 1..Len(questions) :
            \A i \in 0..(Len(questions[k].raw_options) - 1) :
                /\ IndexOf(ABCD, << letters[i + 1] >>) = i
                /\ LetterAt(i) = << letters[i + 1] >>

\* The options value a record supplies: raw_options, else options.
SuppliedOptions(q) == FirstUsable(<< q.raw_options, q.options >>)

\* C14 -- Normalizing an options sequence keeps length and positions: entry
\* i of the result is the text of entry i of the input, the empty text for
\* a null entry.
C14_OptionsKeepPositions ==
    (normalized.called /\ ~normalized.raised) =>
        \A i \in 1..Len(questions_in) :
            LET ro == SuppliedOptions(questions_in[i])
                out == normalized.out[i].raw_options
            IN  ro.t = "list" =>
                    /\ Len(out) = Len(ro.l)
                    /\ \A k \in 1..Len(ro.l) :
                          out[k] = IF ro.l[k].t = "none" THEN <<>>
                                   ELSE PyStr(ElemVal(ro.l[k]))

\* The list [1, null, "x"] normalized to ["1", "", "x"].
C14_Witness ==
    /\ normalized.called /\ ~normalized.raised
    /\ \E i \in 1..Len(questions_in) :
          /\ questions_in[i].raw_options = OptsMixed
          /\ normalized.out[i].raw_options = << << "1" >>, <<>>, << "x" >> >>

\* C15 -- Options supplied as a mapping label -> text: the normalized
\* options are the mapping's values in ascending order of label, one entry
\* per label.
C15_MappingSortedByLabel ==
    (normalized.called /\ ~normalized.raised) =>
        \A i \in 1..Len(questions_in) :
            LET ro == SuppliedOptions(questions_in[i])
                out == normalized.out[i].raw_options
            IN  ro.t = "dict" =>
                    /\ Len(out) = Len(ro.l)
                    /\ \A j \in 1..Len(ro.l) :
                          LET before == { m \in 1..Len(ro.l) :
                                            TextLess(ro.l[m].k, ro.l[j].k) }
                          IN  out[Cardinality(before) + 1] =
                                  IF ro.l[j].t = "none" THEN <<>>
                                  ELSE PyStr(ElemVal(ro.l[j]))

\* The mapping {"B": "y", "A": null, "10": 7} normalized to ["7", "", "y"].
C15_Witness ==
    /\ normalized.called /\ ~normalized.raised
    /\ \E i \in 1..Len(questions_in) :
          /\ questions_in[i].raw_options = OptsDict
          /\ normalized.out[i].raw_options = << << "7" >>, <<>>, << "y" >> >>

\* The record of originalQuestions the working record r was made from.
OriginalOf(r) == originalQuestions[r.index + 1]

\* C16 -- Under random-mode randomization a record whose correct index is
\* unknown (empty or unmappable answer) still has an unknown correct index
\* afterwards, and none of its options is marked correct.
C16_SentinelKept ==
    (loaded /\ mode = "random") =>
        \A k \in 1..Len(questions) :
            AlphabeticIndex(OriginalOf(questions[k]).raw_answer) = -1 =>
                /\ AlphabeticIndex(questions[k].raw_answer) = -1
                /\ ~(/\ 0 <= IndexOf(ABCD, questions[k].raw_answer)
                     /\ IndexOf(ABCD, questions[k].raw_answer)
                            < Len(questions[k].raw_options))

\* C17 -- Random-mode randomization of a record with 0 or 1 options leaves
\* its options and its answer as they were, whatever the answer.
C17_FewOptionsNoOp ==
    (loaded /\ mode = "random") =>
        \A k \in 1..Len(questions) :
            Len(OriginalOf(questions[k]).raw_options) <= 1 =>
                /\ questions[k].raw_options = OriginalOf(questions[k]).raw_options
                /\ questions[k].raw_answer = OriginalOf(questions[k]).raw_answer

\* How often the text v stands in the list of texts.
Occurrences(list, v) == Cardinality({ j \in 1..Len(list) : list[j] = v })

\* The working record r holds what its original holds: the same question
\* text and the same options, in some order.
MadeFromOriginal(r) ==
    /\ r.index \in 0..(Len(originalQuestions) - 1)
    /\ r.raw_question = OriginalOf(r).raw_question
    /\ r.has_code = OriginalOf(r).has_code
    /\ Len(r.raw_options) = Len(OriginalOf(r).raw_options)
    /\ \A j \in 1..Len(r.raw_options) :
          Occurrences(r.raw_options, r.raw_options[j])
              = Occurrences(OriginalOf(r).raw_options, r.raw_options[j])

SameContent(a, b) == a.raw_question = b.raw_question /\ a.raw_options = b.raw_options

\* Two extracted records hold the same question text and option lists of
\* one length that differ in the text of some option.
OptionTextChanged(a, b) ==
    /\ a.raw_question = b.raw_question
    /\ a.raw_options.t = "list" /\ b.raw_options.t = "list"
    /\ Len(a.raw_options.l) = Len(b.raw_options.l)
    /\ a.raw_options.l # b.raw_options.l

\* C19 -- The record checksum depends on (question text, options) only:
\* records with the same question text and options get the same checksum,
\* whatever else they hold, and a changed option text gives another one.
C19_ChecksumOfContentOnly ==
    (extracted.called /\ ~extracted.failed) =>
        \A i, j \in 1..Len(extracted.out) :
            LET a == extracted.out[i]
                b == extracted.out[j]
            IN  /\ SameContent(a, b) => a.checksum = b.checksum
                /\ OptionTextChanged(a, b) => a.checksum # b.checksum

\* C20 -- A record's checksum is never stale: wherever a record carries a
\* checksum, on the server and in the page, it is the digest of the
\* record's current question text and options.
C20_ChecksumNeverStale ==
    /\ \A i \in 1..Len(extracted.out) :
          extracted.out[i].checksum = RecordChecksum(extracted.out[i])
    /\ \A k \in 1..Len(questions) :
          "checksum" \in DOMAIN questions[k] =>
              questions[k].checksum =
                  RecordChecksum(
                      [ raw_question |-> Str(questions[k].raw_question),
                        raw_options |->
                            List([ j \in 1..Len(questions[k].raw_options) |->
                                     EStr(questions[k].raw_options[j]) ]),
                        raw_answer |-> Str(questions[k].raw_answer) ])

\* --------------------------------------------- claims on the validator calls

Done(i) == calls[i].pc = "done"
ValidationOf(i) == calls[i].report.validation

\* The warnings of invocation i of the given type for the record at n.
WarningsFor(i, n, type) ==
    { k \in 1..Len(ValidationOf(i).warnings) :
        /\ ValidationOf(i).warnings[k].question_index = n
        /\ ValidationOf(i).warnings[k].type = type }

RecordHasIssue(i, n) ==
    \E k \in 1..Len(ValidationOf(i).issues) : ValidationOf(i).issues[k].question_index = n

\* C21: a validation's checksum is computed over the record collection: two
\* finished validations carry the same checksum exactly when they were
\* handed the same record list, whatever their source texts.
C21_ChecksumOverRecords ==
    \A i \in Callers, j \in Callers :
        Done(i) /\ Done(j) =>
            ((ValidationOf(i).checksum = ValidationOf(j).checksum)
                <=> (calls[i].qs = calls[j].qs))

\* C22: in every returned validation, each record gets the
\* incomplete_options warning (severity low, action display_with_warning)
\* exactly when it has fewer than four options, the newline warning exactly
\* when its question text holds a line break, the quote warning exactly
\* when its question text holds a single or a double quote, each at most
\* once, and no other warning -- whether or not the record has issues.
C22_WarningsPerRecord ==
    \A i \in Callers :
        Done(i) =>
            /\ \A n \in 1..Len(calls[i].qs) :
                  LET q == calls[i].qs[n]
                      few == Len(q.raw_options.l) < 4
                      newline == \E c \in 1..Len(q.raw_question.s) : q.raw_question.s[c] = "\n"
                      quote == \E c \in 1..Len(q.raw_question.s) :
                                   q.raw_question.s[c] \in {"'", "\""}
                  IN  /\ Cardinality(WarningsFor(i, n, "incomplete_options")) = IF few THEN 1 ELSE 0
                      /\ Cardinality(WarningsFor(i, n, "newline_characters")) = IF newline THEN 1 ELSE 0
                      /\ Cardinality(WarningsFor(i, n, "quote_characters")) = IF quote THEN 1 ELSE 0
            /\ \A k \in 1..Len(ValidationOf(i).warnings) :
                  LET w == ValidationOf(i).warnings[k]
                  IN  /\ w.type \in {"incomplete_options", "newline_characters", "quote_characters"}
                      /\ w.severity = "low"
                      /\ w.type = "incomplete_options" => w.action = "display_with_warning"

\* C22, its case: a finished validation of a record with three options and a
\* line break beside a record with four options, a quote and an issue, and
\* another of a record that gets no warning.
C22_Witness ==
    /\ Done(1) /\ Done(2)
    /\ Len(calls[1].qs) = 2
    /\ WarningsFor(1, 1, "incomplete_options") # {}
    /\ WarningsFor(1, 1, "newline_characters") # {}
    /\ WarningsFor(1, 2, "quote_characters") # {}
    /\ WarningsFor(1, 2, "incomplete_options") = {}
    /\ RecordHasIssue(1, 2)
    /\ Len(calls[2].qs) = 1
    /\ ValidationOf(2).warnings = <<>>

\* The record at position n justifies an issue of the given type.
Justifies(q, type) ==
    CASE type = "empty_answer" -> Strip(q.raw_answer.s) = <<>>
      [] type = "empty_question" -> Strip(q.raw_question.s) = <<>>
      [] type = "insufficient_options" -> Len(q.raw_options.l) < 2
      [] OTHER -> FALSE

C24_SameAsAlone ==
    \A i \in Callers :
        /\ Done(i) =>
              /\ ~ValidationRaises(calls[i].qs)
              /\ [calls[i].report EXCEPT !.timestamp = "t"]
                   = CreateIntegrityReport(calls[i].qs, calls[i].text, "t")
        /\ calls[i].pc = "raised" => ValidationRaises(calls[i].qs)

\* C24, its case: two invocations of different lists ran overlapped and both
\* finished, each with issues of its own.
C24_Witness ==
    /\ Done(1) /\ Done(2)
    /\ calls[1].overlapped /\ calls[2].overlapped
    /\ calls[1].qs # calls[2].qs
    /\ ValidationOf(1).issues # <<>>
    /\ ValidationOf(2).issues # <<>>
    /\ ValidationOf(1).issues # ValidationOf(2).issues

\* ------------------------------------------------- claims on the shuffle

\* The original indices 0..n-1 in order.
Indices(n) == [j \in 1..n |-> j - 1]

\* q.raw_options.map((opt, idx) => ({option: opt, originalIndex: idx}))
PairsOf(options) ==
    [j \in 1..Len(options) |-> [option |-> options[j], originalIndex |-> j - 1]]

HasDuplicates(options) ==
    \E i \in 1..Len(options), j \in 1..Len(options) : i # j /\ options[i] = options[j]

\* C25: in random mode, for each record whose answer is one of the letters
\* A-D and names one of its options (index c), and for every sequence of
\* draws: the options come out in the order the draws put the original
\* indices in, the new correct index found is the new position of the entry
\* whose original index is c, whatever the texts, and where that position
\* has a letter among A-D the record's answer becomes that letter.  The
\* record the page holds is one of these outcomes.
C25_TrackedByOriginalIndex ==
    (loaded /\ mode = "random") =>
        \A k \in 1..Len(questions) :
            LET o == OriginalOf(questions[k])
                n == Len(o.raw_options)
                c == AlphabeticIndex(o.raw_answer)
                mapped == MapQuestions(originalQuestions)[questions[k].index + 1]
            IN  (0 <= c /\ c < n /\ c < Len(ABCD)) =>
                    /\ \A d \in DrawSeqs(n) :
                          LET p == ShuffleArray(Indices(n), d)
                              pos == (CHOOSE j \in 1..n : p[j] = c) - 1
                              outcome == RandomizeOptions(mapped, d)
                          IN  /\ outcome.raw_options = [j \in 1..n |-> o.raw_options[p[j] + 1]]
                              /\ FindIndex(ShuffleArray(PairsOf(o.raw_options), d), c) = pos
                              /\ pos < Len(ABCD) => outcome.raw_answer = << ABCD[pos + 1] >>
                    /\ \E d \in DrawSeqs(n) :
                          LET outcome == RandomizeOptions(mapped, d)
                          IN  /\ questions[k].raw_options = outcome.raw_options
                              /\ questions[k].raw_answer = outcome.raw_answer

\* C25, its case: a random-mode page holding a record of two options of the
\* same text whose answer was B and is A now.
C25_Witness ==
    /\ loaded /\ mode = "random"
    /\ \E k \in 1..Len(questions) :
          /\ HasDuplicates(OriginalOf(questions[k]).raw_options)
          /\ OriginalOf(questions[k]).raw_answer = << "B" >>
          /\ questions[k].raw_answer = << "A" >>

RECURSIVE Factorial(_)
Factorial(n) == IF n <= 1 THEN 1 ELSE n * Factorial(n - 1)

IsPermutationOfIndices(p, n) ==
    /\ Len(p) = n
    /\ \A v \in 0..(n - 1) : Cardinality({ j \in 1..n : p[j] = v }) = 1

\* The arrays shuffleArray(Indices(n)) can return.
ShuffleOutcomes(n) == { ShuffleArray(Indices(n), d) : d \in DrawSeqs(n) }

\* The lengths of the arrays the page shuffles: the question list and each
\* question's options.
ShuffledLengths ==
    { Len(originalQuestions) }
        \cup { Len(originalQuestions[i].raw_options) : i \in 1..Len(originalQuestions) }

\* C26: for every array length the page shuffles, every sequence of draws
\* yields a permutation of the array, the n! sequences of draws yield n!
\* different permutations (so every permutation is reached, each by exactly
\* one sequence), and on a loaded random-mode page the order of the
\* questions and of each question's options is one of them.
C26_ShuffleIsBijection ==
    html = "returned" =>
        /\ \A n \in ShuffledLengths :
              /\ \A p \in ShuffleOutcomes(n) : IsPermutationOfIndices(p, n)
              /\ Cardinality(DrawSeqs(n)) = Factorial(n)
              /\ Cardinality(ShuffleOutcomes(n)) = Factorial(n)
        /\ (loaded /\ mode = "random") =>
              /\ [k \in 1..Len(questions) |-> questions[k].index]
                    \in ShuffleOutcomes(Len(originalQuestions))
              /\ \A k \in 1..Len(questions) :
                    \E p \in ShuffleOutcomes(Len(questions[k].raw_options)) :
                        \A j \in 1..Len(p) :
                            questions[k].raw_options[j]
                                = OriginalOf(questions[k]).raw_options[p[j] + 1]

\* C26, its case: a random-mode page whose two questions changed places and
\* whose question of four options shows them in another order.
C26_Witness ==
    /\ loaded /\ mode = "random"
    /\ Len(questions) = 2
    /\ questions[1].index = 1
    /\ \E k \in 1..Len(questions) :
          /\ Len(questions[k].raw_options) = 4
          /\ questions[k].raw_options # OriginalOf(questions[k]).raw_options

\* ------------------------------------------- claims on the page's handlers

\* C27: on a loaded page currentIndex is always a position of the list,
\* whatever clicks, keys, selections and restarts came before; a click or
\* arrow key for the previous question at the first question, and for the
\* next question at the last, leaves currentIndex as it is.
C27_IndexInBounds ==
    /\ [](loaded => 0 <= currentIndex /\ currentIndex < Len(questions))
    /\ [][ (currentIndex = 0 /\ (PrevClick \/ KeyDown("ArrowLeft")))
              => currentIndex' = currentIndex ]_vars
    /\ [][ (currentIndex = Len(questions) - 1 /\ (NextClick \/ KeyDown("ArrowRight")))
              => currentIndex' = currentIndex ]_vars

\* C27, its case: the last of two questions is shown, the first one answered
\* on the way.
C27_Witness ==
    /\ loaded
    /\ Len(questions) = 2
    /\ currentIndex = 1
    /\ nextDisabled
    /\ questions[1].userAnswer # NULL

AllUnanswered(qs, index) ==
    /\ index = 0
    /\ \A j \in 1..Len(qs) : qs[j].userAnswer = NULL /\ ~qs[j].isAnswered

\* C28: the option buttons shown are disabled exactly when the question
\* shown has an answer; a step changes the answer of an answered question
\* only by resetting every question to unanswered and currentIndex to 0;
\* and every confirmed restart does reset them.
C28_AnswerFixedUntilRestart ==
    /\ [](loaded => optionButtons.disabled = (questions[currentIndex + 1].userAnswer # NULL))
    /\ [][ \A k \in 1..Len(questions) :
              questions[k].userAnswer # NULL =>
                  \/ /\ questions'[k].userAnswer = questions[k].userAnswer
                     /\ questions'[k].isAnswered
                     /\ questions'[k].index = questions[k].index
                  \/ AllUnanswered(questions', currentIndex') ]_vars
    /\ [][ (\E qd \in QuestionDrawsMade(TRUE),
               od \in OptionDrawsMade(TRUE) : RestartClick(TRUE, qd, od))
              => AllUnanswered(questions', currentIndex') ]_vars

\* C28, its case: both questions are answered and the first is shown again.
C28_Witness ==
    /\ loaded
    /\ Len(questions) = 2
    /\ currentIndex = 0
    /\ questions[1].userAnswer # NULL
    /\ questions[2].userAnswer # NULL
    /\ optionButtons.disabled

\* -------------------------------- claims on extract_quiz_questions_simple

\* C29: every question extract_quiz_questions_simple emits has at least two
\* options and a correctOptionIndex that is a position of its options.
C29_EmittedQuestionsWellFormed ==
    simple.called =>
        \A k \in 1..Len(simple.questions) :
            /\ Len(simple.questions[k].options) >= 2
            /\ 0 <= simple.questions[k].correctOptionIndex
            /\ simple.questions[k].correctOptionIndex < Len(simple.questions[k].options)

====
